---- MODULE Spec2Model ----
(***************************************************************************)
(* GEX dashboard: the level-crossing alert hook (useGEXAlerts) driven by   *)
(* the dashboard's calculate requests (DashboardView.fetchData).           *)
(*                                                                         *)
(* Every React state change re-renders DashboardView; useGEXAlerts' effect *)
(* lists playSound among its dependencies, a function re-created by every  *)
(* render, so the effect runs after every render.  Each action below is    *)
(* therefore "handler, then render, then the alert effect".                *)
(*                                                                         *)
(* Further specifications apply the library functions (market-regime,     *)
(* strategy-guidance), render GEXChart and StrategyCard from their props,  *)
(* and run ScannerView; they share the variables below.  SpecPage,         *)
(* SpecRerender and SpecLive are the dashboard under fewer actions (SpecLive *)
(* with the fairness of the interval); SpecProfile is the backend's profile *)
(* analysis as spec.md describes it.                                       *)
(***************************************************************************)
EXTENDS Integers, Sequences, FiniteSets, TLC

\* ---------------------------------------------------------------- constants
ALERT_COOLDOWN_MS == 300000

\* a level that is null or undefined (levels are strikes/prices, hence > 0)
NoLevel == -1

\* the three checkCross calls, in call order
LevelNames == <<"Zero Gamma", "Call Wall", "Put Wall">>
Names == {LevelNames[i] : i \in 1..Len(LevelNames)}

\* ------------------------------------------------------------------- bounds
StartMs == 1000000      \* Date.now() when the dashboard mounts
TickMs == 150000        \* granularity of the clock
MaxTicks == 2           \* the clock stops after MaxTicks ticks
MaxInFlight == 2        \* calculate requests awaiting their response

Symbols == {"SPY", "QQQ"}
Prices == {98, 100, 102}
ZeroLevels == {NoLevel, 100, 101}
WallLevels == {NoLevel, 101}

\* the fields of a calculate response that the alert hook reads
Profiles ==
    [spot_price : Prices, zero_gamma_level : ZeroLevels,
     call_wall : WallLevels, put_wall : WallLevels]

\* the responses of the dashboard specification: one tracked level
DashProfiles ==
    [spot_price : {98, 102}, zero_gamma_level : {101},
     call_wall : {NoLevel}, put_wall : {NoLevel}]

VARIABLES
    symbol,            \* useConfig().symbol
    auto_update,       \* useConfig().auto_update (Live Mode)
    data,              \* useState<any>(null)
    loading,           \* useState(false)
    error,             \* useState<string | null>(null)
    lastUpdated,       \* useState<Date | null>(null), 0 = null
    interval,          \* the setInterval of the auto-refresh effect is armed
    inFlight,          \* calculate requests in issue order, oldest first
    alertsEnabled,     \* useState(false) of useGEXAlerts
    soundEnabled,      \* useState(false) of useGEXAlerts
    prevSpotRef,       \* useRef<number>(spotPrice)
    lastTriggeredRef,  \* useRef<Record<string, number>>({}), 0 = no entry
    now,               \* Date.now()
    toasts,            \* per level: the toasts raised by the latest effect run
    toastCount,        \* per level: number of toasts raised so far
    lastToast,         \* per level: symbol and time of the latest toast
    input,             \* the arguments or props a library function is given
    call,              \* the library function or component applied to input
    ret,               \* what that application returned, rendered or threw
    scanner            \* the state of ScannerView

\* DashboardView and the alert hook it mounts
dashVars ==
    <<symbol, auto_update, data, loading, error, lastUpdated, interval,
      inFlight, alertsEnabled, soundEnabled, prevSpotRef, lastTriggeredRef,
      now, toasts, toastCount, lastToast>>

\* the library functions, the components that only render, the scanner page
libVars == <<input, call, ret, scanner>>

vars ==
    <<symbol, auto_update, data, loading, error, lastUpdated, interval,
      inFlight, alertsEnabled, soundEnabled, prevSpotRef, lastTriggeredRef,
      now, toasts, toastCount, lastToast, input, call, ret, scanner>>

\* nothing applied, nothing returned, ScannerView not on screen
Nothing == <<>>

\* ------------------------------------------------------------ data / props
\* data === null
NoData ==
    [symbol |-> "", spot_price |-> 0, zero_gamma_level |-> NoLevel,
     call_wall |-> NoLevel, put_wall |-> NoLevel, superseded |-> FALSE]

\* the json of a successful response to request r
Loaded(r, p) ==
    [symbol |-> r.symbol, spot_price |-> p.spot_price,
     zero_gamma_level |-> p.zero_gamma_level,
     call_wall |-> p.call_wall, put_wall |-> p.put_wall,
     superseded |-> r.superseded]

\* spotPrice: data?.spot_price || 0
spotPriceOf(d) == IF d = NoData \/ d.spot_price = 0 THEN 0 ELSE d.spot_price

\* zeroGamma / callWall / putWall props
levelOf(d, name) ==
    IF d = NoData THEN NoLevel
    ELSE IF name = "Zero Gamma" THEN d.zero_gamma_level
    ELSE IF name = "Call Wall" THEN d.call_wall
    ELSE d.put_wall

\* no toast yet for a level
NoToast == [symbol |-> "", at |-> 0]

\* ------------------------------------------------------------- useGEXAlerts
\* checkCross without the cooldown test
checkCross_NoCooldown(level, prevSpot, spotPrice, lastTrigger, t) ==
    IF level = NoLevel THEN <<>>
    ELSE IF prevSpot < level /\ spotPrice >= level THEN <<"ABOVE">>
    ELSE IF prevSpot > level /\ spotPrice <= level THEN <<"BELOW">>
    ELSE <<>>

\* checkCross with a cooldown that ends one millisecond late
checkCross_LateCooldown(level, prevSpot, spotPrice, lastTrigger, t) ==
    IF level = NoLevel THEN <<>>
    ELSE IF t - lastTrigger <= ALERT_COOLDOWN_MS THEN <<>>
    ELSE IF prevSpot < level /\ spotPrice >= level THEN <<"ABOVE">>
    ELSE IF prevSpot > level /\ spotPrice <= level THEN <<"BELOW">>
    ELSE <<>>

\* checkCross with strict comparisons of the new price
checkCross_Strict(level, prevSpot, spotPrice, lastTrigger, t) ==
    IF level = NoLevel THEN <<>>
    ELSE IF t - lastTrigger < ALERT_COOLDOWN_MS THEN <<>>
    ELSE IF prevSpot < level /\ spotPrice > level THEN <<"ABOVE">>
    ELSE IF prevSpot > level /\ spotPrice < level THEN <<"BELOW">>
    ELSE <<>>

\* checkCross without the bearish branch
checkCross_BullishOnly(level, prevSpot, spotPrice, lastTrigger, t) ==
    IF level = NoLevel THEN <<>>
    ELSE IF t - lastTrigger < ALERT_COOLDOWN_MS THEN <<>>
    ELSE IF prevSpot < level /\ spotPrice >= level THEN <<"ABOVE">>
    ELSE <<>>

\* checkCross also counting a previous price that sat on the level
checkCross_PrevInclusive(level, prevSpot, spotPrice, lastTrigger, t) ==
    IF level = NoLevel THEN <<>>
    ELSE IF t - lastTrigger < ALERT_COOLDOWN_MS THEN <<>>
    ELSE IF prevSpot <= level /\ spotPrice >= level THEN <<"ABOVE">>
    ELSE IF prevSpot >= level /\ spotPrice <= level THEN <<"BELOW">>
    ELSE <<>>

\* checkCross: the directions of the toasts it raises, in order
checkCross(level, prevSpot, spotPrice, lastTrigger, t) ==
    IF level = NoLevel THEN <<>>
    ELSE IF t - lastTrigger < ALERT_COOLDOWN_MS THEN <<>>
    ELSE IF prevSpot < level /\ spotPrice >= level THEN <<"ABOVE">>
    ELSE IF prevSpot > level /\ spotPrice <= level THEN <<"BELOW">>
    ELSE <<>>

\* position of a level name in the order of the checkCross calls
CallIndex(n) == CHOOSE i \in 1..Len(LevelNames) : LevelNames[i] = n

\* checkAll leaving the effect at the first level that is null
checkAll_StopAtNull(enabled, d, prevSpot, last, t) ==
    [n \in Names |->
        IF /\ enabled
           /\ \A j \in 1..CallIndex(n) : levelOf(d, LevelNames[j]) # NoLevel
        THEN checkCross(levelOf(d, n), prevSpot, spotPriceOf(d), last[n], t)
        ELSE <<>>]

\* the three checkCross calls of one effect run, all against the same
\* prevSpot; none when alerts are disabled (early return)
checkAll(enabled, d, prevSpot, last, t) ==
    [n \in Names |->
        IF enabled
        THEN checkCross(levelOf(d, n), prevSpot, spotPriceOf(d), last[n], t)
        ELSE <<>>]

\* Triggered with one timestamp shared by the three levels
Triggered_Shared(name, raised, last, t) ==
    IF \E m \in Names : raised[m] # <<>> THEN t ELSE last[name]

\* lastTriggeredRef.current[name] after checkCross for that name
Triggered(name, raised, last, t) ==
    IF raised[name] # <<>> THEN t ELSE last[name]

\* NextPrevSpot with a disabled branch that returns without the update
NextPrevSpot_Stale(enabled, prevSpot, spotPrice) ==
    IF enabled THEN spotPrice ELSE prevSpot

\* prevSpotRef.current after the effect
NextPrevSpot(enabled, prevSpot, spotPrice) == spotPrice

\* AlertEffect keeping the previous price while a crossing is held back by
\* a cooldown, so that the crossing is seen again once the cooldown is over
AlertEffect_Deferred(sym, d, enabled) ==
    LET raised == checkAll(enabled, d, prevSpotRef, lastTriggeredRef, now)
        held == \E n \in Names :
                   /\ enabled
                   /\ raised[n] = <<>>
                   /\ checkCross_NoCooldown(levelOf(d, n), prevSpotRef,
                          spotPriceOf(d), lastTriggeredRef[n], now) # <<>>
    IN  /\ lastTriggeredRef' =
               [n \in Names |-> Triggered(n, raised, lastTriggeredRef, now)]
        /\ prevSpotRef' = IF held THEN prevSpotRef ELSE spotPriceOf(d)
        /\ toasts' = raised
        /\ toastCount' = [n \in Names |-> toastCount[n] + Len(raised[n])]
        /\ lastToast' =
               [n \in Names |->
                   IF raised[n] # <<>> THEN [symbol |-> sym, at |-> now]
                   ELSE lastToast[n]]

\* the effect of useGEXAlerts for one render
AlertEffect(sym, d, enabled) ==
    LET raised == checkAll(enabled, d, prevSpotRef, lastTriggeredRef, now)
    IN  /\ lastTriggeredRef' =
               [n \in Names |-> Triggered(n, raised, lastTriggeredRef, now)]
        /\ prevSpotRef' = NextPrevSpot(enabled, prevSpotRef, spotPriceOf(d))
        /\ toasts' = raised
        /\ toastCount' = [n \in Names |-> toastCount[n] + Len(raised[n])]
        /\ lastToast' =
               [n \in Names |->
                   IF raised[n] # <<>> THEN [symbol |-> sym, at |-> now]
                   ELSE lastToast[n]]

\* ------------------------------------------------------------ DashboardView
\* a calculate request: signal = it was issued with the AbortSignal of the
\* configuration effect; superseded = a request issued after it has already
\* had its response applied
Request(sym, withSignal) ==
    [symbol |-> sym, signal |-> withSignal, aborted |-> FALSE,
     superseded |-> FALSE]

\* controller.abort() of the configuration effect's cleanup
Abort(q) ==
    [i \in 1..Len(q) |->
        IF q[i].signal THEN [q[i] EXCEPT !.aborted = TRUE] ELSE q[i]]

\* the queue without its i-th request
Without(q, i) == SubSeq(q, 1, i - 1) \o SubSeq(q, i + 1, Len(q))

\* requests issued before the i-th one are superseded once it is applied
Supersede(q, i) ==
    [j \in 1..Len(q) |->
        IF j < i THEN [q[j] EXCEPT !.superseded = TRUE] ELSE q[j]]

\* fetchData, up to the await of fetch(); q is the queue it is appended to;
\* without a symbol it returns at once
Issue(q, sym, withSignal) ==
    IF sym = ""
    THEN /\ inFlight' = q
         /\ UNCHANGED <<loading, error>>
    ELSE /\ Len(q) < MaxInFlight
         /\ inFlight' = Append(q, Request(sym, withSignal))
         /\ loading' = IF data = NoData THEN TRUE ELSE loading
         /\ error' = FALSE

Mount ==
    /\ symbol \in Symbols
    /\ auto_update \in BOOLEAN
    /\ data = NoData
    /\ loading = TRUE
    /\ error = FALSE
    /\ lastUpdated = 0
    /\ interval = auto_update
    /\ inFlight = <<Request(symbol, TRUE)>>
    /\ alertsEnabled = FALSE
    /\ soundEnabled = FALSE
    /\ prevSpotRef = 0
    /\ lastTriggeredRef = [n \in Names |-> 0]
    /\ now = StartMs
    /\ toasts = [n \in Names |-> <<>>]
    /\ toastCount = [n \in Names |-> 0]
    /\ lastToast = [n \in Names |-> NoToast]

\* the dashboard page: no library call under observation, no scanner
Init ==
    /\ Mount
    /\ input = Nothing
    /\ call = ""
    /\ ret = Nothing
    /\ scanner = Nothing

\* the sidebar's setSymbol: cleanup aborts, the effect fetches again
ChangeSymbol(s) ==
    /\ s # symbol
    /\ symbol' = s
    /\ Issue(Abort(inFlight), s, TRUE)
    /\ AlertEffect(s, data, alertsEnabled)
    /\ UNCHANGED <<auto_update, data, lastUpdated, interval, alertsEnabled,
                   soundEnabled, now>>
    /\ UNCHANGED libVars

\* another configuration change (max_dte, strike_range_pct, ...)
ChangeConfig ==
    /\ Issue(Abort(inFlight), symbol, TRUE)
    /\ AlertEffect(symbol, data, alertsEnabled)
    /\ UNCHANGED <<symbol, auto_update, data, lastUpdated, interval,
                   alertsEnabled, soundEnabled, now>>
    /\ UNCHANGED libVars

\* the Refresh button
Refresh ==
    /\ ~loading
    /\ Issue(inFlight, symbol, FALSE)
    /\ AlertEffect(symbol, data, alertsEnabled)
    /\ UNCHANGED <<symbol, auto_update, data, lastUpdated, interval,
                   alertsEnabled, soundEnabled, now>>
    /\ UNCHANGED libVars

\* the 15-second interval of Live Mode
TimerFire ==
    /\ interval
    /\ Issue(inFlight, symbol, FALSE)
    /\ AlertEffect(symbol, data, alertsEnabled)
    /\ UNCHANGED <<symbol, auto_update, data, lastUpdated, interval,
                   alertsEnabled, soundEnabled, now>>
    /\ UNCHANGED libVars

\* ToggleAutoUpdate with a cleanup that leaves the interval running
ToggleAutoUpdate_KeepsTimer ==
    /\ auto_update' = ~auto_update
    /\ interval' = (interval \/ auto_update')
    /\ AlertEffect(symbol, data, alertsEnabled)
    /\ UNCHANGED <<symbol, data, loading, error, lastUpdated, inFlight,
                   alertsEnabled, soundEnabled, now>>
    /\ UNCHANGED libVars

\* the Live Mode switch: the auto-refresh effect clears its interval and
\* sets a new one only when auto_update is on
ToggleAutoUpdate ==
    /\ auto_update' = ~auto_update
    /\ interval' = auto_update'
    /\ AlertEffect(symbol, data, alertsEnabled)
    /\ UNCHANGED <<symbol, data, loading, error, lastUpdated, inFlight,
                   alertsEnabled, soundEnabled, now>>
    /\ UNCHANGED libVars

\* a response arrives with a profile: setData(json), setLastUpdated
SettleOk(i, p) ==
    /\ ~inFlight[i].aborted
    /\ data' = Loaded(inFlight[i], p)
    /\ lastUpdated' = now
    /\ loading' = FALSE
    /\ inFlight' = Without(Supersede(inFlight, i), i)
    /\ AlertEffect(symbol, data', alertsEnabled)
    /\ UNCHANGED <<symbol, auto_update, error, interval, alertsEnabled,
                   soundEnabled, now>>
    /\ UNCHANGED libVars

\* SettleError dropping the profile on screen
SettleError_ClearsData(i) ==
    /\ ~inFlight[i].aborted
    /\ error' = TRUE
    /\ data' = NoData
    /\ loading' = FALSE
    /\ inFlight' = Without(inFlight, i)
    /\ AlertEffect(symbol, data', alertsEnabled)
    /\ UNCHANGED <<symbol, auto_update, lastUpdated, interval,
                   alertsEnabled, soundEnabled, now>>
    /\ UNCHANGED libVars

\* non-OK status, json.error or a network error: setError(message)
SettleError(i) ==
    /\ ~inFlight[i].aborted
    /\ error' = TRUE
    /\ loading' = FALSE
    /\ inFlight' = Without(inFlight, i)
    /\ AlertEffect(symbol, data, alertsEnabled)
    /\ UNCHANGED <<symbol, auto_update, data, lastUpdated, interval,
                   alertsEnabled, soundEnabled, now>>
    /\ UNCHANGED libVars

\* an aborted fetch rejects with AbortError: return, then finally
SettleAborted(i) ==
    /\ inFlight[i].aborted
    /\ loading' = FALSE
    /\ inFlight' = Without(inFlight, i)
    /\ AlertEffect(symbol, data, alertsEnabled)
    /\ UNCHANGED <<symbol, auto_update, data, error, lastUpdated, interval,
                   alertsEnabled, soundEnabled, now>>
    /\ UNCHANGED libVars

\* the Enable Alerts switch
ToggleAlerts ==
    /\ alertsEnabled' = ~alertsEnabled
    /\ AlertEffect(symbol, data, alertsEnabled')
    /\ UNCHANGED <<symbol, auto_update, data, loading, error, lastUpdated,
                   interval, inFlight, soundEnabled, now>>
    /\ UNCHANGED libVars

\* the Sound switch, enabled while alerts are on; playSound is made anew,
\* so the effect runs again
ToggleSound ==
    /\ alertsEnabled
    /\ soundEnabled' = ~soundEnabled
    /\ AlertEffect(symbol, data, alertsEnabled)
    /\ UNCHANGED <<symbol, auto_update, data, loading, error, lastUpdated,
                   interval, inFlight, alertsEnabled, now>>
    /\ UNCHANGED libVars

\* time passes
Tick ==
    /\ now < StartMs + MaxTicks * TickMs
    /\ now' = now + TickMs
    /\ UNCHANGED <<symbol, auto_update, data, loading, error, lastUpdated,
                   interval, inFlight, alertsEnabled, soundEnabled,
                   prevSpotRef, lastTriggeredRef, toasts, toastCount,
                   lastToast>>
    /\ UNCHANGED libVars

\* the user types another symbol
SymbolChanged == \E s \in Symbols : ChangeSymbol(s)

\* any pending request settles, in any order
ResponseOk ==
    \E i \in 1..Len(inFlight) : \E p \in DashProfiles : SettleOk(i, p)

ResponseError == \E i \in 1..Len(inFlight) : SettleError(i)

ResponseAborted == \E i \in 1..Len(inFlight) : SettleAborted(i)

Next ==
    \/ SymbolChanged
    \/ ChangeConfig
    \/ Refresh
    \/ TimerFire
    \/ ToggleAutoUpdate
    \/ ResponseOk
    \/ ResponseError
    \/ ResponseAborted
    \/ ToggleAlerts
    \/ ToggleSound
    \/ Tick

Spec == Init /\ [][Next]_vars

\* the page without its alert switches: requests, responses and the clock
NextPage ==
    \/ SymbolChanged
    \/ ChangeConfig
    \/ Refresh
    \/ TimerFire
    \/ ToggleAutoUpdate
    \/ ResponseOk
    \/ ResponseError
    \/ ResponseAborted
    \/ Tick

SpecPage == Init /\ [][NextPage]_vars

\* Live Mode: the symbol field, which may be left empty, the Live Mode
\* switch, the interval and the responses
LiveSymbols == {"", "SPY"}

LiveSymbolChanged == \E s \in LiveSymbols : ChangeSymbol(s)

Settled == ResponseOk \/ ResponseError \/ ResponseAborted

NextLive ==
    \/ LiveSymbolChanged
    \/ ToggleAutoUpdate
    \/ TimerFire
    \/ ResponseOk
    \/ ResponseError
    \/ ResponseAborted

\* an armed interval that is left alone fires, and a pending fetch settles
FairLive == WF_vars(TimerFire) /\ WF_vars(Settled)

InitLive == Init /\ symbol = "SPY"

SpecLive == InitLive /\ [][NextLive]_vars /\ FairLive

\* the alert hook under one symbol and a user who refreshes only once the
\* previous response has settled: responses, the alert switch, the clock
InitMonitor == Init /\ symbol = "SPY" /\ ~auto_update

RefreshSettled == inFlight = <<>> /\ Refresh

MonitorResponse ==
    \E i \in 1..Len(inFlight) : \E p \in Profiles : SettleOk(i, p)

NextMonitor ==
    \/ RefreshSettled
    \/ MonitorResponse
    \/ ToggleAlerts
    \/ Tick

SpecMonitor == InitMonitor /\ [][NextMonitor]_vars

\* the renders of the alert hook: responses that move the price or only the
\* levels, another symbol, the two switches
SymbolSettled == inFlight = <<>> /\ SymbolChanged

\* a response whose two walls agree
RerenderResponse ==
    \E i \in 1..Len(inFlight) : \E p \in Profiles :
        /\ p.call_wall = p.put_wall
        /\ SettleOk(i, p)

NextRerender ==
    \/ RefreshSettled
    \/ SymbolSettled
    \/ RerenderResponse
    \/ ToggleAlerts
    \/ ToggleSound

SpecRerender == InitMonitor /\ [][NextRerender]_vars

\* the samples 100, 102, 98, 98, ... against levels that stay at 101: the
\* first response arrives with alerts off, then alerts are switched on
ScenarioSample(p) ==
    /\ \A n \in Names : levelOf(Loaded(inFlight[1], p), n) \in {NoLevel, 101}
    /\ IF data = NoData
       THEN /\ ~alertsEnabled
            /\ p.spot_price = 100
            /\ \E n \in Names : levelOf(Loaded(inFlight[1], p), n) = 101
       ELSE /\ alertsEnabled
            /\ \A n \in Names :
                  levelOf(Loaded(inFlight[1], p), n) = levelOf(data, n)
            /\ \/ /\ data.spot_price = 100
                  /\ p.spot_price = 102
                  /\ \A n \in Names : toastCount[n] = 0
               \/ data.spot_price = 102 /\ p.spot_price = 98
               \/ data.spot_price = 98 /\ p.spot_price = 98

ScenarioSettle ==
    /\ inFlight # <<>>
    /\ \E p \in Profiles : ScenarioSample(p) /\ SettleOk(1, p)

ScenarioEnable == data # NoData /\ ~alertsEnabled /\ ToggleAlerts

NextScenario ==
    \/ RefreshSettled
    \/ ScenarioSettle
    \/ ScenarioEnable
    \/ Tick

SpecScenario == InitMonitor /\ [][NextScenario]_vars

\* ------------------------------------------------------------------ claims
\* the step handed a toast for level n to the sink
Raised(n) == toastCount'[n] # toastCount[n]

\* the step rendered (every action but Tick) and ran the alert effect
Rendered == now' = now

\* level n is within ALERT_COOLDOWN_MS of its latest toast
CoolingDown(n) ==
    toastCount[n] > 0 /\ now - lastToast[n].at < ALERT_COOLDOWN_MS

\* the step's price move is a bullish cross of level n: prev < L <= p
Above(n) ==
    LET L == levelOf(data', n)
    IN  L # NoLevel /\ spotPriceOf(data) < L /\ L <= spotPriceOf(data')

\* the step's price move is a bearish cross of level n: prev > L >= p
Below(n) ==
    LET L == levelOf(data', n)
    IN  L # NoLevel /\ spotPriceOf(data) > L /\ L >= spotPriceOf(data')

\* C1: for each level, a step raises at most one toast, and a toast is at
\* least ALERT_COOLDOWN_MS later than the previous toast of the same level
C1_CooldownSpacing ==
    [][\A n \in Names :
         Raised(n) =>
            /\ toastCount'[n] = toastCount[n] + 1
            /\ lastToast'[n].at = now'
            /\ toastCount[n] > 0 =>
                   now' - lastToast[n].at >= ALERT_COOLDOWN_MS]_vars

\* every level has raised two toasts
C1_Witness == \A n \in Names : toastCount[n] >= 2

\* C2: the first profile applied after the mount, and the first profile of
\* another symbol than the one shown, raise no toast
C2_FirstPriceSilent ==
    [][data' # data /\ (data = NoData \/ data'.symbol # data.symbol) =>
         \A n \in Names : ~Raised(n)]_vars

\* C3: a crossing of a level between two prices of the monitored symbol,
\* evaluated with alerts enabled, raises a toast when the latest toast of
\* that level was raised under another symbol
C3_CooldownPerSymbol ==
    [][Rendered /\ alertsEnabled' =>
         \A n \in Names :
            /\ data.symbol = symbol' /\ data'.symbol = symbol'
            /\ Above(n) \/ Below(n)
            /\ toastCount[n] > 0
            /\ lastToast[n].symbol # symbol'
            => Raised(n)]_vars

\* C4: an enabled effect run raises a toast for every level that is crossed
\* and not cooling down, whatever the other levels do, and the timestamp of
\* a level changes only when that level raised a toast
C4_LevelsIndependent ==
    [][Rendered /\ alertsEnabled' =>
         \A n \in Names :
            /\ (Above(n) \/ Below(n)) /\ ~CoolingDown(n) => Raised(n)
            /\ Raised(n) => lastTriggeredRef'[n] = now'
            /\ ~Raised(n) => lastTriggeredRef'[n] = lastTriggeredRef[n]]_vars

\* one effect run raised toasts for two levels while a third level, which
\* had raised one earlier, kept its timestamp
C4_Witness ==
    \E a, b, c \in Names :
        /\ a # b
        /\ toasts[a] # <<>> /\ lastTriggeredRef[a] = now
        /\ toasts[b] # <<>> /\ lastTriggeredRef[b] = now
        /\ toasts[c] = <<>>
        /\ lastTriggeredRef[c] # 0 /\ lastTriggeredRef[c] < now

\* C5 as stated: with alerts enabled and the level at 101, the step 100 -> 102
\* raises exactly ABOVE, the step 102 -> 98 exactly BELOW, any other step
\* of the samples 100, 102, 98, 98 nothing
C5_Samples ==
    [][Rendered /\ alertsEnabled /\ alertsEnabled' /\ data # NoData =>
         \A n \in Names :
            levelOf(data', n) = 101 =>
               toasts'[n] =
                  IF data.spot_price = 100 /\ data'.spot_price = 102
                  THEN <<"ABOVE">>
                  ELSE IF data.spot_price = 102 /\ data'.spot_price = 98
                  THEN <<"BELOW">>
                  ELSE <<>>]_vars

\* C5 amended: the step 102 -> 98 raises exactly BELOW when at least
\* ALERT_COOLDOWN_MS have elapsed since the ABOVE toast, and nothing before
C5_SamplesCooldown ==
    [][Rendered /\ alertsEnabled /\ alertsEnabled' /\ data # NoData =>
         \A n \in Names :
            levelOf(data', n) = 101 =>
               toasts'[n] =
                  IF data.spot_price = 100 /\ data'.spot_price = 102
                  THEN <<"ABOVE">>
                  ELSE IF /\ data.spot_price = 102 /\ data'.spot_price = 98
                          /\ now' - lastToast[n].at >= ALERT_COOLDOWN_MS
                  THEN <<"BELOW">>
                  ELSE <<>>]_vars

\* the sample 98 raised BELOW, the second toast of a level at 101
C5_Witness ==
    \E n \in Names :
        /\ levelOf(data, n) = 101
        /\ data.spot_price = 98
        /\ toasts[n] = <<"BELOW">>
        /\ toastCount[n] = 2

\* C6: with alerts enabled, a crossing of a level that has raised a toast
\* before raises another one iff ALERT_COOLDOWN_MS or more have elapsed
\* since that toast
C6_CooldownWindow ==
    [][Rendered /\ alertsEnabled' =>
         \A n \in Names :
            (Above(n) \/ Below(n)) /\ toastCount[n] > 0 =>
               (Raised(n) <=> now' - lastToast[n].at >= ALERT_COOLDOWN_MS)]_vars

\* a level raised its second toast exactly ALERT_COOLDOWN_MS after the first
C6_Witness ==
    \E n \in Names :
        /\ toastCount[n] = 2
        /\ toasts[n] # <<>>
        /\ lastToast[n].at = now
        /\ now = StartMs + 2 * TickMs

\* C7: an effect run with alerts disabled raises no toast and changes no
\* timestamp; every effect run leaves the previous price at the current spot
\* price; the run that switches alerts on raises no toast
C7_DisabledTracksPrice ==
    [][Rendered =>
         /\ prevSpotRef' = spotPriceOf(data')
         /\ ~alertsEnabled' =>
                /\ toastCount' = toastCount
                /\ lastTriggeredRef' = lastTriggeredRef
         /\ ~alertsEnabled /\ alertsEnabled' => toastCount' = toastCount]_vars

\* alerts are on, the price arrived above a level while they were off, and
\* no toast has been raised
C7_Witness ==
    /\ alertsEnabled
    /\ \A n \in Names : toastCount[n] = 0
    /\ \E n \in Names :
           levelOf(data, n) # NoLevel /\ levelOf(data, n) <= prevSpotRef

\* C8: on an evaluated update the toasts of a level are exactly: ABOVE iff
\* prev < L <= p, BELOW iff prev > L >= p, none otherwise; never both
C8_CrossRule ==
    [][Rendered /\ alertsEnabled' =>
         \A n \in Names :
            levelOf(data', n) # NoLevel /\ ~CoolingDown(n) =>
               /\ toasts'[n] = IF Above(n) THEN <<"ABOVE">>
                                ELSE IF Below(n) THEN <<"BELOW">>
                                ELSE <<>>
               /\ toastCount'[n] = toastCount[n] + Len(toasts'[n])]_vars

\* a bearish cross that stopped exactly on the level
C8_Witness ==
    /\ data.zero_gamma_level = 100
    /\ data.spot_price = 100
    /\ toasts["Zero Gamma"] = <<"BELOW">>
    /\ lastToast["Zero Gamma"].at = now

\* C9: a level that is null raises no toast and keeps its timestamp, the
\* other levels are still evaluated, and the previous price is advanced
C9_NullLevelSkipped ==
    [][Rendered =>
         /\ prevSpotRef' = spotPriceOf(data')
         /\ \A n \in Names :
               levelOf(data', n) = NoLevel =>
                  /\ ~Raised(n)
                  /\ lastTriggeredRef'[n] = lastTriggeredRef[n]
                  /\ \A m \in Names :
                        /\ alertsEnabled'
                        /\ Above(m) \/ Below(m)
                        /\ ~CoolingDown(m)
                        => Raised(m)]_vars

\* the zero-gamma level is null and the run still raised a toast for a wall
\* and advanced the previous price
C9_Witness ==
    /\ data # NoData
    /\ data.zero_gamma_level = NoLevel
    /\ \E m \in Names : toasts[m] # <<>> /\ lastTriggeredRef[m] = now
    /\ prevSpotRef = data.spot_price

\* C25: a crossing of a level that is cooling down is dropped, not deferred:
\* it raises no toast and does not restart the cooldown, the previous price
\* still advances to the new price, and a toast is raised only by an update
\* whose own price move crosses the level, so once the cooldown is over the
\* level stays silent until the price crosses it again
C25_DroppedNotDeferred ==
    [][Rendered /\ alertsEnabled' =>
         \A n \in Names :
            /\ (Above(n) \/ Below(n)) /\ CoolingDown(n) =>
                  /\ ~Raised(n)
                  /\ lastTriggeredRef'[n] = lastTriggeredRef[n]
                  /\ prevSpotRef' = spotPriceOf(data')
            /\ Raised(n) => Above(n) \/ Below(n)]_vars

\* the latest update fell through 101 and raised BELOW for one level there
\* while another level at 101, still cooling down from its only toast,
\* stayed silent; the previous price is the new price
C25_Witness ==
    \E a, b \in Names :
        /\ levelOf(data, a) = 101
        /\ levelOf(data, b) = 101
        /\ toasts[b] = <<"BELOW">>
        /\ toasts[a] = <<>>
        /\ toastCount[a] = 1
        /\ lastTriggeredRef[a] = lastToast[a].at
        /\ now - lastToast[a].at < ALERT_COOLDOWN_MS
        /\ prevSpotRef = data.spot_price

\* C10: the profile in data never comes from a request that was issued
\* before a request whose response had already been applied
C10_IssueOrder == ~data.superseded

\* C28: every toast names the symbol whose profile produced the crossing:
\* when a toast is raised, the symbol handed to useGEXAlerts is the symbol
\* of the profile held in data
C28_AlertNamesDataSymbol ==
    [][\A n \in Names :
         Raised(n) => /\ lastToast'[n].symbol = symbol'
                      /\ data'.symbol = symbol']_vars

\* the step issued a request without the AbortSignal of the configuration
\* effect
Polled ==
    /\ Len(inFlight') = Len(inFlight) + 1
    /\ ~inFlight'[Len(inFlight')].signal

\* C21: if from some time on Live Mode stays on and a symbol stays set, the
\* interval issues a calculate request again and again, with no user
\* action; while Live Mode is off the interval is cleared, and no request
\* is issued by it
C21_LiveModePolls ==
    /\ <>[](auto_update /\ symbol # "") => []<><<Polled>>_vars
    /\ [](interval <=> auto_update)
    /\ [][~auto_update => ~Polled]_vars

\* Live Mode was switched on after the mount and a request of the interval
\* is pending
C21_Witness ==
    /\ auto_update
    /\ interval
    /\ symbol = "SPY"
    /\ data # NoData
    /\ \E i \in 1..Len(inFlight) : ~inFlight[i].signal

\* C24: a failed calculate request (non-OK status, error field, network
\* error) sets an error message and leaves the loaded profile and
\* lastUpdated as they were; the settling of a request that a configuration
\* change aborted sets no error message and writes no profile
C24_FailureKeepsData ==
    [][/\ ResponseError =>
             /\ error'
             /\ data' = data
             /\ lastUpdated' = lastUpdated
       /\ ResponseAborted =>
             /\ error' = error
             /\ data' = data
             /\ lastUpdated' = lastUpdated]_vars

\* a refresh failed after the clock had moved on: the error is shown next
\* to the profile loaded earlier
C24_Witness ==
    /\ error
    /\ inFlight = <<>>
    /\ data # NoData
    /\ lastUpdated = StartMs
    /\ now > StartMs

\* C29: a toast is raised only by an update whose spot price differs from
\* the price recorded before it; a render that changes only the levels, the
\* symbol, the alert switch or the sound switch raises none, wherever the
\* levels lie
C29_OnlyOnPriceChange ==
    [][/\ (\E n \in Names : Raised(n)) =>
             /\ spotPriceOf(data') # prevSpotRef
             /\ spotPriceOf(data') # spotPriceOf(data)
       /\ (Rendered /\ spotPriceOf(data') = spotPriceOf(data)) =>
             /\ toastCount' = toastCount
             /\ lastTriggeredRef' = lastTriggeredRef]_vars

\* alerts and sound were switched on while the price sat on the zero-gamma
\* level, and no toast was ever raised
C29_Witness ==
    /\ alertsEnabled
    /\ soundEnabled
    /\ data # NoData
    /\ data.spot_price = 100
    /\ data.zero_gamma_level = 100
    /\ prevSpotRef = 100
    /\ \A n \in Names : toastCount[n] = 0

\* C30: while data is null and a calculate request that was not aborted is
\* in flight, loading is true (the Refresh button is disabled); the settling
\* of an older, aborted request does not clear it
C30_LoadingUntilSettled ==
    (data = NoData /\ \E i \in 1..Len(inFlight) : ~inFlight[i].aborted)
        => loading

TypeOK ==
    /\ symbol \in Symbols \cup {""}
    /\ prevSpotRef \in Prices \cup {0}
    /\ Len(inFlight) <= MaxInFlight

\* =========================================================== market regime
\* lib/market-regime.ts, and the Market Regime card that calls it
GEX_THRESHOLD == 1000000000

\* the dashboard prints total_gex / 1000 as billions: total_gex is in $M
MILLIONS_PER_BILLION == 1000

\* how far around a threshold the amounts are drawn
Spread == 12

Around(c) == {c + d : d \in -Spread..Spread}

Negated(S) == {-x : x \in S}

\* dollar amounts around the thresholds, far beyond them and around zero
DollarAmounts ==
    Around(GEX_THRESHOLD) \cup Negated(Around(GEX_THRESHOLD))
        \cup Around(0) \cup {2 * GEX_THRESHOLD, -2 * GEX_THRESHOLD}

\* total_gex of a calculate response, in $M: from -$1.012B to $1.012B, $2.5B
TotalGexValues ==
    Around(MILLIONS_PER_BILLION) \cup Negated(Around(MILLIONS_PER_BILLION))
        \cup {2500, -2500}

getRegimeLabel(totalGex) ==
    IF totalGex >= GEX_THRESHOLD THEN "POSITIVE_GAMMA"
    ELSE IF totalGex <= -GEX_THRESHOLD THEN "NEGATIVE_GAMMA"
    ELSE "NEUTRAL"

isPositiveGammaRegime(totalGex) == totalGex >= GEX_THRESHOLD

isNegativeGammaRegime_Strict(totalGex) == totalGex < -GEX_THRESHOLD

isNegativeGammaRegime(totalGex) == totalGex <= -GEX_THRESHOLD

isNeutralRegime(totalGex) ==
    ~isPositiveGammaRegime(totalGex) /\ ~isNegativeGammaRegime(totalGex)

\* <KPICard title="Market Regime" value={getRegimeLabel(data.total_gex)} />
MarketRegimeCard(d) == getRegimeLabel(d.total_gex)

InitRegime ==
    /\ Mount /\ symbol = "SPY" /\ ~auto_update
    /\ input \in DollarAmounts \cup TotalGexValues
    /\ call = ""
    /\ ret = Nothing
    /\ scanner = Nothing

\* the label and the three predicates of one amount
ClassifyRegime ==
    /\ call' = "classify"
    /\ ret' = [label |-> getRegimeLabel(input),
               positive |-> isPositiveGammaRegime(input),
               negative |-> isNegativeGammaRegime(input),
               neutral |-> isNeutralRegime(input)]
    /\ UNCHANGED <<input, scanner>>
    /\ UNCHANGED dashVars

\* the dashboard renders a profile whose total_gex is the amount
RenderRegimeCard ==
    /\ input \in TotalGexValues
    /\ call' = "MarketRegimeCard"
    /\ ret' = [value |-> MarketRegimeCard([total_gex |-> input])]
    /\ UNCHANGED <<input, scanner>>
    /\ UNCHANGED dashVars

NextRegime ==
    \/ ClassifyRegime
    \/ RenderRegimeCard

SpecRegime == InitRegime /\ [][NextRegime]_vars

Count(b) == IF b THEN 1 ELSE 0

\* C11: for every totalGex exactly one of the three regime predicates is
\* true and it is the one getRegimeLabel names: positive iff totalGex >=
\* GEX_THRESHOLD, negative iff totalGex <= -GEX_THRESHOLD, neutral otherwise;
\* the amounts GEX_THRESHOLD and -GEX_THRESHOLD are not neutral
C11_RegimePartition ==
    call = "classify" =>
        /\ Count(ret.positive) + Count(ret.negative) + Count(ret.neutral) = 1
        /\ ret.positive <=> ret.label = "POSITIVE_GAMMA"
        /\ ret.negative <=> ret.label = "NEGATIVE_GAMMA"
        /\ ret.neutral <=> ret.label = "NEUTRAL"
        /\ ret.positive <=> input >= GEX_THRESHOLD
        /\ ret.negative <=> input <= -GEX_THRESHOLD
        /\ input \in {GEX_THRESHOLD, -GEX_THRESHOLD} => ~ret.neutral

C11_Witness ==
    /\ call = "classify"
    /\ input = -GEX_THRESHOLD
    /\ ret.negative
    /\ ret.label = "NEGATIVE_GAMMA"

\* C12: the Market Regime card of a profile whose total net GEX is at least
\* $1 billion (total_gex >= 1000, in $M) reads POSITIVE_GAMMA, at most
\* -$1 billion NEGATIVE_GAMMA, anything in between NEUTRAL
C12_CardThreshold ==
    call = "MarketRegimeCard" =>
        ret.value =
            IF input >= MILLIONS_PER_BILLION THEN "POSITIVE_GAMMA"
            ELSE IF input <= -MILLIONS_PER_BILLION THEN "NEGATIVE_GAMMA"
            ELSE "NEUTRAL"

\* ======================================================= strategy guidance
\* lib/strategy-guidance.ts and the StrategyCard that calls it.  A string is
\* the sequence of its characters.
LowerCase ==
    <<"a", "b", "c", "d", "e", "f", "g", "h", "i", "j", "k", "l", "m",
      "n", "o", "p", "q", "r", "s", "t", "u", "v", "w", "x", "y", "z">>

UpperCase ==
    <<"A", "B", "C", "D", "E", "F", "G", "H", "I", "J", "K", "L", "M",
      "N", "O", "P", "Q", "R", "S", "T", "U", "V", "W", "X", "Y", "Z">>

\* String.prototype.toUpperCase, one character
toUpperChar(c) ==
    IF \E i \in 1..Len(LowerCase) : LowerCase[i] = c
    THEN UpperCase[CHOOSE i \in 1..Len(LowerCase) : LowerCase[i] = c]
    ELSE c

toUpperCase(str) == [i \in 1..Len(str) |-> toUpperChar(str[i])]

toLowerChar(c) ==
    IF \E i \in 1..Len(UpperCase) : UpperCase[i] = c
    THEN LowerCase[CHOOSE i \in 1..Len(UpperCase) : UpperCase[i] = c]
    ELSE c

\* enum StrategySignalType
MEAN_REVERSION ==
    <<"M", "E", "A", "N", "_", "R", "E", "V", "E", "R", "S", "I", "O",
      "N">>

ACCELERATION ==
    <<"A", "C", "C", "E", "L", "E", "R", "A", "T", "I", "O", "N">>

MAGNET_PIN ==
    <<"M", "A", "G", "N", "E", "T", "_", "P", "I", "N">>

\* Object.values(StrategySignalType)
SignalTypes == {MEAN_REVERSION, ACCELERATION, MAGNET_PIN}

\* a JavaScript value: its typeof tag (null and array told apart) and the
\* string that String(value) yields
Str(chars) == [type |-> "string", str |-> chars]

Null == [type |-> "null", str |-> <<"n", "u", "l", "l">>]

Undefined ==
    [type |-> "undefined",
     str |-> <<"u", "n", "d", "e", "f", "i", "n", "e", "d">>]

Num(digits) == [type |-> "number", str |-> digits]

\* an array of one string: String([s]) is s
ArrayOf(chars) == [type |-> "array", str |-> chars]

\* !value
Falsy(v) ==
    \/ v.type \in {"null", "undefined"}
    \/ v.type = "string" /\ v.str = <<>>
    \/ v.type = "number" /\ v.str = <<"0">>

\* the first k characters in lower case
LowerFirst(str, k) ==
    [i \in 1..Len(str) |-> IF i <= k THEN toLowerChar(str[i]) ELSE str[i]]

\* the last k characters in lower case
LowerLast(str, k) ==
    [i \in 1..Len(str) |->
        IF i > Len(str) - k THEN toLowerChar(str[i]) ELSE str[i]]

\* the exact name and its lower-case and mixed-case spellings
Spellings(name) ==
    {LowerFirst(name, k) : k \in 0..Len(name)}
        \cup {LowerLast(name, k) : k \in 0..Len(name)}

\* strings that spell no signal type
OtherStrings ==
    { <<>>,
      <<"U", "N", "K", "N", "O", "W", "N">>,
      <<"n", "u", "l", "l">>,
      <<"u", "n", "d", "e", "f", "i", "n", "e", "d">>,
      <<" ", "M", "A", "G", "N", "E", "T", "_", "P", "I", "N">>,
      <<"M", "A", "G", "N", "E", "T", " ", "P", "I", "N">>,
      <<"M", "A", "G", "N", "E", "T", "_", "P", "I", "N", "S">> }

SignalValues ==
    {Str(c) : c \in UNION {Spellings(n) : n \in SignalTypes}}
        \cup {Str(c) : c \in OtherStrings}
        \cup {Null, Undefined, Num(<<"1", "2", "3">>), Num(<<"0">>)}
        \cup {ArrayOf(MAGNET_PIN), ArrayOf(LowerFirst(MAGNET_PIN, 6))}

isValidSignal(signal) ==
    signal.type = "string" /\ signal.str \in SignalTypes

normalizeSignal(signal) ==
    IF signal.type \in {"null", "undefined"} THEN Null
    ELSE LET signalStr == signal.str
             upperSignal == toUpperCase(signalStr)
         IN  IF isValidSignal(Str(signalStr)) THEN Str(signalStr)
             ELSE IF isValidSignal(Str(upperSignal)) THEN Str(upperSignal)
             ELSE Null

\* throw new Error(`Invalid signal type: "${signal}". Must be one of: ...`)
Threw == [threw |-> TRUE, value |-> "Invalid signal type"]

Returned(text) == [threw |-> FALSE, value |-> text]

Normalized_CaseExact(signal) == signal

\* const normalized = typeof signal === "string" && !isValidSignal(signal)
\*     ? normalizeSignal(signal) : signal
Normalized(signal) ==
    IF signal.type = "string" /\ ~isValidSignal(signal)
    THEN normalizeSignal(signal)
    ELSE signal

\* if (!normalized || !isValidSignal(normalized)) throw
Invalid(normalized) == Falsy(normalized) \/ ~isValidSignal(normalized)

getTradingApproach_Default(signal) ==
    LET normalized == Normalized(signal)
    IN  IF Invalid(normalized) THEN Returned("Monitor price action.")
        ELSE Returned(
            CASE normalized.str = MEAN_REVERSION ->
                   "Fade breakouts. Sell OTM options. Target range midpoint."
              [] normalized.str = ACCELERATION ->
                   "Trade breakouts. Buy straddles/strangles. Wide stops."
              [] normalized.str = MAGNET_PIN ->
                   "Expect consolidation near wall. Sell theta, avoid directional."
              [] OTHER -> "")

getTradingApproach(signal) ==
    LET normalized == Normalized(signal)
    IN  IF Invalid(normalized) THEN Threw
        ELSE Returned(
            CASE normalized.str = MEAN_REVERSION ->
                   "Fade breakouts. Sell OTM options. Target range midpoint."
              [] normalized.str = ACCELERATION ->
                   "Trade breakouts. Buy straddles/strangles. Wide stops."
              [] normalized.str = MAGNET_PIN ->
                   "Expect consolidation near wall. Sell theta, avoid directional."
              [] OTHER -> "")

getRiskGuidance(signal) ==
    LET normalized == Normalized(signal)
    IN  IF Invalid(normalized) THEN Threw
        ELSE Returned(
            CASE normalized.str = MEAN_REVERSION ->
                   "Low - Confined range expected. Watch overnight gaps."
              [] normalized.str = ACCELERATION ->
                   "High - Volatile. Use smaller position sizes."
              [] normalized.str = MAGNET_PIN ->
                   "Medium - Risk of late-day volatility if wall breaks."
              [] OTHER -> "")

getTimeHorizon(signal) ==
    LET normalized == Normalized(signal)
    IN  IF Invalid(normalized) THEN Threw
        ELSE Returned(
            CASE normalized.str = MEAN_REVERSION ->
                   "Intraday to 1-3 days (within DTE window)"
              [] normalized.str = ACCELERATION ->
                   "Same day - momentum exhaustion can be rapid"
              [] normalized.str = MAGNET_PIN ->
                   "Into market close (typically after 2 PM)"
              [] OTHER -> "")

\* the first lookup that throws ends the call
getAllGuidance(signal) ==
    LET approach == getTradingApproach(signal)
        risk == getRiskGuidance(signal)
        timeHorizon == getTimeHorizon(signal)
    IN  IF approach.threw THEN approach
        ELSE IF risk.threw THEN risk
        ELSE IF timeHorizon.threw THEN timeHorizon
        ELSE Returned(<<approach.value, risk.value, timeHorizon.value>>)

\* strategy.signal.replace(/_/g, " ")
replaceUnderscores(str) ==
    [i \in 1..Len(str) |-> IF str[i] = "_" THEN " " ELSE str[i]]

\* data.strategy of a calculate response: null, missing, or an object
NoStrategy == [kind |-> "null", signal |-> Undefined]

MissingStrategy == [kind |-> "undefined", signal |-> Undefined]

Strategy(signal) == [kind |-> "object", signal |-> signal]

\* getIcon: a switch on strategy.signal itself, compared with ===
getIcon(signal) ==
    IF signal.type # "string" THEN "TrendingUp"
    ELSE IF signal.str = MEAN_REVERSION THEN "Minus"
    ELSE IF signal.str = ACCELERATION THEN "Zap"
    ELSE IF signal.str = MAGNET_PIN THEN "Anchor"
    ELSE "TrendingUp"

\* what the strategy slot of the dashboard shows
NotRendered(lookups, threw) ==
    [card |-> FALSE, threw |-> threw, lookups |-> lookups,
     icon |-> "", title |-> <<>>, guidance |-> <<>>]

StrategyCard(strategy) ==
    IF strategy.kind # "object" THEN NotRendered(0, FALSE)
    ELSE LET tradingApproach == getTradingApproach(strategy.signal)
             riskGuidance == getRiskGuidance(strategy.signal)
             timeHorizon == getTimeHorizon(strategy.signal)
         IN  IF tradingApproach.threw THEN NotRendered(1, TRUE)
             ELSE IF riskGuidance.threw THEN NotRendered(2, TRUE)
             ELSE IF timeHorizon.threw THEN NotRendered(3, TRUE)
             ELSE [card |-> TRUE, threw |-> FALSE, lookups |-> 3,
                   icon |-> getIcon(strategy.signal),
                   title |-> replaceUnderscores(strategy.signal.str),
                   guidance |-> <<tradingApproach.value, riskGuidance.value,
                                  timeHorizon.value>>]

DashboardStrategyCard_Placeholder(d) ==
    StrategyCard(IF d.strategy.kind # "object"
                 THEN Strategy(Str(MEAN_REVERSION)) ELSE d.strategy)

\* {data.strategy && <StrategyCard strategy={data.strategy} />}
DashboardStrategyCard(d) ==
    IF d.strategy.kind # "object" THEN NotRendered(0, FALSE)
    ELSE StrategyCard(d.strategy)

StrategyInputs ==
    {NoStrategy, MissingStrategy} \cup {Strategy(v) : v \in SignalValues}

InitGuidance ==
    /\ Mount /\ symbol = "SPY" /\ ~auto_update
    /\ input \in StrategyInputs
    /\ call = ""
    /\ ret = Nothing
    /\ scanner = Nothing

Apply(fn, result) ==
    /\ call' = fn
    /\ ret' = result
    /\ UNCHANGED <<input, scanner>>
    /\ UNCHANGED dashVars

CallIsValidSignal ==
    Apply("isValidSignal", Returned(isValidSignal(input.signal)))

CallNormalizeSignal ==
    Apply("normalizeSignal", Returned(normalizeSignal(input.signal)))

CallGetTradingApproach ==
    Apply("getTradingApproach", getTradingApproach(input.signal))

CallGetRiskGuidance ==
    Apply("getRiskGuidance", getRiskGuidance(input.signal))

CallGetTimeHorizon ==
    Apply("getTimeHorizon", getTimeHorizon(input.signal))

CallGetAllGuidance ==
    Apply("getAllGuidance", getAllGuidance(input.signal))

\* the dashboard renders a profile whose strategy field is the input
RenderStrategyCard ==
    Apply("StrategyCard", DashboardStrategyCard([strategy |-> input]))

NextGuidance ==
    \/ CallIsValidSignal
    \/ CallNormalizeSignal
    \/ CallGetTradingApproach
    \/ CallGetRiskGuidance
    \/ CallGetTimeHorizon
    \/ CallGetAllGuidance
    \/ RenderStrategyCard

SpecGuidance == InitGuidance /\ [][NextGuidance]_vars

\* chars is name up to the case of its letters
Spells(chars, name) ==
    /\ Len(chars) = Len(name)
    /\ \A i \in 1..Len(name) :
          chars[i] = name[i] \/ chars[i] = toLowerChar(name[i])

\* the value is a string that names one of the three signal types
NamesSignalType(v) ==
    v.type = "string" /\ \E n \in SignalTypes : Spells(v.str, n)

LookupNames == {"getTradingApproach", "getRiskGuidance", "getTimeHorizon"}

\* the lookup called fn, applied to a value
LookupOf(fn, v) ==
    CASE fn = "getTradingApproach" -> getTradingApproach(v)
      [] fn = "getRiskGuidance" -> getRiskGuidance(v)
      [] fn = "getTimeHorizon" -> getTimeHorizon(v)

\* C13: getTradingApproach, getRiskGuidance, getTimeHorizon and
\* getAllGuidance throw "Invalid signal type" for every input that does not
\* name one of the three signal types (unknown strings, the empty string,
\* null, undefined, non-strings) and return no text for it; StrategyCard
\* renders no guidance for such a signal
C13_UnknownSignalThrows ==
    /\ (/\ call \in LookupNames \cup {"getAllGuidance"}
        /\ ~NamesSignalType(input.signal))
           => ret.threw /\ ret.value = "Invalid signal type"
    /\ (/\ call = "StrategyCard"
        /\ input.kind = "object"
        /\ ~NamesSignalType(input.signal))
           => ~ret.card /\ ret.threw /\ ret.guidance = <<>>

C13_Witness ==
    /\ call = "getAllGuidance"
    /\ input.signal = Str(<<"U", "N", "K", "N", "O", "W", "N">>)
    /\ ret.threw

\* the lookups return for a spelling what they return for the enum member,
\* and isValidSignal accepts the exact names only
C14_Lookups ==
    /\ (/\ call \in LookupNames
        /\ input.signal.type = "string"
        /\ normalizeSignal(input.signal) # Null)
           => /\ ~ret.threw
              /\ ret = LookupOf(call, normalizeSignal(input.signal))
    /\ (call \in LookupNames /\ input.signal.type = "string")
           => \A n \in SignalTypes :
                 Spells(input.signal.str, n) => ret = LookupOf(call, Str(n))
    /\ call = "isValidSignal"
           => (ret.value <=> /\ input.signal.type = "string"
                             /\ input.signal.str \in SignalTypes)

\* C14: for every string s with normalizeSignal(s) non-null each lookup
\* returns for s the text it returns for the enum member normalizeSignal(s),
\* so lower-case and mixed-case spellings yield the guidance of the exact
\* name; isValidSignal is case-exact; normalizeSignal returns null for null,
\* undefined and every other value that is not such a spelling
C14_Normalisation ==
    /\ C14_Lookups
    /\ call = "normalizeSignal"
           => /\ \A n \in SignalTypes :
                    (/\ input.signal.type = "string"
                     /\ Spells(input.signal.str, n)) => ret.value = Str(n)
              /\ ~NamesSignalType(input.signal) => ret.value = Null

\* C14, amended: as above, but normalizeSignal decides on String(value): it
\* returns null for null, undefined and every value whose string conversion
\* is not a spelling of a valid name, and the name for a non-string whose
\* string conversion spells it
C14_NormalisationOfStringForm ==
    /\ C14_Lookups
    /\ call = "normalizeSignal"
           => /\ input.signal.type \in {"null", "undefined"}
                    => ret.value = Null
              /\ input.signal.type \notin {"null", "undefined"}
                    => /\ \A n \in SignalTypes :
                             Spells(input.signal.str, n) => ret.value = Str(n)
                       /\ (\A n \in SignalTypes : ~Spells(input.signal.str, n))
                             => ret.value = Null

C14_Witness ==
    /\ call = "getRiskGuidance"
    /\ input.signal = Str(LowerFirst(ACCELERATION, Len(ACCELERATION)))
    /\ ret = Returned("High - Volatile. Use smaller position sizes.")

\* C16: for a profile without a strategy the dashboard renders no
\* StrategyCard, performs no guidance lookup and throws nothing
C16_NoStrategyNoCard ==
    (call = "StrategyCard" /\ input.kind # "object")
        => /\ ~ret.card
           /\ ret.lookups = 0
           /\ ~ret.threw
           /\ ret.title = <<>>

C16_Witness ==
    /\ call = "StrategyCard"
    /\ input = NoStrategy
    /\ ~ret.card
    /\ ret.lookups = 0

\* the icon drawn for a signal type
IconOf(name) ==
    CASE name = MEAN_REVERSION -> "Minus"
      [] name = ACCELERATION -> "Zap"
      [] name = MAGNET_PIN -> "Anchor"

\* C27: whenever StrategyCard renders a signal, its icon, its title and its
\* three guidance texts belong to one and the same signal type: a spelling
\* the lookups accept is not drawn with the fallback icon
C27_UniformSignal ==
    (call = "StrategyCard" /\ ret.card) =>
        \E n \in SignalTypes :
            /\ ret.icon = IconOf(n)
            /\ Spells(ret.title, replaceUnderscores(n))
            /\ ret.guidance = <<getTradingApproach(Str(n)).value,
                                getRiskGuidance(Str(n)).value,
                                getTimeHorizon(Str(n)).value>>

\* =============================================================== GEX chart
\* components/dashboard/gex-chart.tsx
MaxRows == 3        \* rows of strike_gex
MaxVisible == 1     \* visibleStrikes, the zoom level

\* opacities in tenths
MIN_BAR_OPACITY == 4
MAX_BAR_OPACITY == 9

\* Number.MAX_VALUE: above every difference of two strikes
MAX_VALUE == 2147483647

Strikes == {98, 100, 102}

\* per strike: net GEX and volume-weighted GEX, one larger than the other
GexPairs == {<<-3, 1>>, <<2, 5>>}

StrikeRow(strike, pair) ==
    [k \in {"Strike", "Net GEX ($M)", "VolWeightedGEX"} |->
        IF k = "Strike" THEN strike
        ELSE IF k = "Net GEX ($M)" THEN pair[1] ELSE pair[2]]

Rows == {StrikeRow(st, pr) : st \in Strikes, pr \in GexPairs}

RECURSIVE SeqsUpTo(_, _)
SeqsUpTo(S, n) ==
    IF n = 0 THEN {<<>>}
    ELSE LET shorter == SeqsUpTo(S, n - 1)
         IN  shorter \cup {Append(q, x) : q \in shorter, x \in S}

Abs(x) == IF x < 0 THEN -x ELSE x

Max(S) == CHOOSE x \in S : \A y \in S : y <= x

\* !wall: null, undefined or 0
NoWall(wall) == wall = NoLevel \/ wall = 0

\* Array.prototype.sort((a, b) => a.Strike - b.Strike), which is stable
RECURSIVE InsertByStrike(_, _)
InsertByStrike(sorted, row) ==
    IF sorted = <<>> THEN <<row>>
    ELSE IF sorted[Len(sorted)].Strike <= row.Strike THEN Append(sorted, row)
    ELSE Append(InsertByStrike(SubSeq(sorted, 1, Len(sorted) - 1), row),
                sorted[Len(sorted)])

RECURSIVE sortedData(_)
sortedData(rows) ==
    IF rows = <<>> THEN <<>>
    ELSE InsertByStrike(sortedData(SubSeq(rows, 1, Len(rows) - 1)),
                        rows[Len(rows)])

RECURSIVE closestLoop_LastWins(_, _, _, _, _)
closestLoop_LastWins(sorted, spotPrice, i, index, minDiff) ==
    IF i >= Len(sorted) THEN index
    ELSE LET diff == Abs(sorted[i + 1].Strike - spotPrice)
         IN  IF diff <= minDiff
             THEN closestLoop_LastWins(sorted, spotPrice, i + 1, i, diff)
             ELSE closestLoop_LastWins(sorted, spotPrice, i + 1, index, minDiff)

\* the for loop of closestIndex from i on; indices count from 0
RECURSIVE closestLoop(_, _, _, _, _)
closestLoop(sorted, spotPrice, i, index, minDiff) ==
    IF i >= Len(sorted) THEN index
    ELSE LET diff == Abs(sorted[i + 1].Strike - spotPrice)
         IN  IF diff < minDiff
             THEN closestLoop(sorted, spotPrice, i + 1, i, diff)
             ELSE closestLoop(sorted, spotPrice, i + 1, index, minDiff)

closestIndex(sorted, spotPrice) ==
    closestLoop(sorted, spotPrice, 0, 0, MAX_VALUE)

\* viewData with an endIndex that leaves out the last strike above
viewData_ExclusiveEnd(sorted, closest, RANGE) ==
    LET startIndex == Max({0, closest - RANGE})
        endIndex == IF Len(sorted) < closest + RANGE
                    THEN Len(sorted) ELSE closest + RANGE
    IN  SubSeq(sorted, startIndex + 1, endIndex)

\* sortedData.slice(startIndex, endIndex)
viewData(sorted, closest, RANGE) ==
    LET startIndex == Max({0, closest - RANGE})
        endIndex == IF Len(sorted) < closest + RANGE + 1
                    THEN Len(sorted) ELSE closest + RANGE + 1
    IN  SubSeq(sorted, startIndex + 1, endIndex)

dataKey(weightedMode) ==
    IF weightedMode THEN "VolWeightedGEX" ELSE "Net GEX ($M)"

maxAbsGex_StandardKey(view, key) ==
    Max({Abs(view[i]["Net GEX ($M)"]) : i \in 1..Len(view)} \cup {1})

maxAbsGex(view, key) ==
    Max({Abs(view[i][key]) : i \in 1..Len(view)} \cup {1})

isValidWallConfig_Lenient(callWall, putWall) ==
    IF NoWall(callWall) \/ NoWall(putWall) THEN TRUE
    ELSE putWall <= callWall

isValidWallConfig(callWall, putWall) ==
    IF NoWall(callWall) \/ NoWall(putWall) THEN TRUE
    ELSE putWall < callWall

\* MIN_BAR_OPACITY + intensity * (MAX_BAR_OPACITY - MIN_BAR_OPACITY) with
\* intensity = |value| / maxAbs, as the fraction num / den of tenths
getBarOpacity(value, maxAbs) ==
    [num |-> MIN_BAR_OPACITY * maxAbs
                + Abs(value) * (MAX_BAR_OPACITY - MIN_BAR_OPACITY),
     den |-> maxAbs]

\* what GEXChart computes from its props and what it draws
GEXChart(props) ==
    LET sorted == sortedData(props.data)
        closest == closestIndex(sorted, props.spotPrice)
        view == viewData(sorted, closest, props.visibleStrikes)
        key == dataKey(props.weightedMode)
        maxAbs == maxAbsGex(view, key)
        valid == isValidWallConfig(props.callWall, props.putWall)
    IN  [sortedData |-> sorted,
         closestIndex |-> closest,
         viewData |-> view,
         maxAbsGex |-> maxAbs,
         isValidWallConfig |-> valid,
         expectedRange |->
             valid /\ ~NoWall(props.putWall) /\ ~NoWall(props.callWall),
         fillOpacity |->
             [i \in 1..Len(view) |-> getBarOpacity(view[i][key], maxAbs)]]

\* charts of every strike_gex up to MaxRows rows, without walls
DataProps ==
    [data : SeqsUpTo(Rows, MaxRows), spotPrice : {99, 100},
     callWall : {NoLevel}, putWall : {NoLevel},
     visibleStrikes : 0..MaxVisible, weightedMode : BOOLEAN]

\* charts of one strike_gex under every pair of walls
WallProps ==
    [data : {<<StrikeRow(98, <<-3, 1>>), StrikeRow(102, <<2, 5>>)>>},
     spotPrice : {100},
     callWall : {NoLevel, 0} \cup Strikes, putWall : {NoLevel, 0} \cup Strikes,
     visibleStrikes : {MaxVisible}, weightedMode : {FALSE}]

InitChart ==
    /\ Mount /\ symbol = "SPY" /\ ~auto_update
    /\ input \in DataProps \cup WallProps
    /\ call = ""
    /\ ret = Nothing
    /\ scanner = Nothing

RenderChart ==
    /\ call' = "GEXChart"
    /\ ret' = GEXChart(input)
    /\ UNCHANGED <<input, scanner>>
    /\ UNCHANGED dashVars

NextChart == RenderChart

SpecChart == InitChart /\ [][NextChart]_vars

\* C15: isValidWallConfig is true whenever a wall is missing and otherwise
\* true iff putWall < callWall; the expected-range band is drawn iff both
\* walls are present and putWall < callWall; with an invalid configuration
\* the chart still draws its bars
C15_WallConfig ==
    call = "GEXChart" =>
        LET missing == NoWall(input.callWall) \/ NoWall(input.putWall)
        IN  /\ missing => ret.isValidWallConfig
            /\ ~missing =>
                  (ret.isValidWallConfig <=> input.putWall < input.callWall)
            /\ ret.expectedRange <=>
                  (~missing /\ input.putWall < input.callWall)
            /\ Len(ret.fillOpacity) = Len(ret.viewData)

C15_Witness ==
    /\ call = "GEXChart"
    /\ input.putWall = 100
    /\ input.callWall = 100
    /\ ~ret.isValidWallConfig
    /\ ~ret.expectedRange
    /\ ret.fillOpacity # <<>>

\* C19: every bar of the visible window, in standard and in weighted mode,
\* has an opacity within [MIN_BAR_OPACITY, MAX_BAR_OPACITY]; maxAbsGex is
\* the maximum of 1 and the largest absolute value of the displayed key over
\* that window, so never 0 and never below a displayed bar
C19_OpacityRange ==
    call = "GEXChart" =>
        LET key == IF input.weightedMode THEN "VolWeightedGEX"
                   ELSE "Net GEX ($M)"
            shown == {Abs(ret.viewData[i][key]) : i \in 1..Len(ret.viewData)}
        IN  /\ ret.maxAbsGex >= 1
            /\ \A v \in shown : v <= ret.maxAbsGex
            /\ ret.maxAbsGex \in shown \cup {1}
            /\ \A i \in 1..Len(ret.fillOpacity) :
                  /\ MIN_BAR_OPACITY * ret.fillOpacity[i].den
                        <= ret.fillOpacity[i].num
                  /\ ret.fillOpacity[i].num
                        <= MAX_BAR_OPACITY * ret.fillOpacity[i].den

C19_Witness ==
    /\ call = "GEXChart"
    /\ input.weightedMode
    /\ ret.maxAbsGex = 5
    /\ Len(ret.fillOpacity) = 3
    /\ \E i \in 1..3 :
          ret.fillOpacity[i].num = MAX_BAR_OPACITY * ret.fillOpacity[i].den
    /\ \E i \in 1..3 :
          ret.fillOpacity[i].num < MAX_BAR_OPACITY * ret.fillOpacity[i].den

\* C20: closestIndex is the lowest index of the strike-sorted data whose
\* strike minimises |Strike - spotPrice|, and 0 for empty data
C20_ClosestStrike ==
    call = "GEXChart" =>
        LET sorted == ret.sortedData
            dist(i) == Abs(sorted[i + 1].Strike - input.spotPrice)
        IN  /\ \A i \in 1..(Len(sorted) - 1) :
                  sorted[i].Strike <= sorted[i + 1].Strike
            /\ IF sorted = <<>> THEN ret.closestIndex = 0
               ELSE /\ ret.closestIndex \in 0..(Len(sorted) - 1)
                    /\ \A j \in 0..(Len(sorted) - 1) :
                          /\ dist(ret.closestIndex) <= dist(j)
                          /\ j < ret.closestIndex
                                => dist(ret.closestIndex) < dist(j)

C20_Witness ==
    /\ call = "GEXChart"
    /\ input.spotPrice = 100
    /\ Len(input.data) = 3
    /\ input.data[1].Strike = 102
    /\ input.data[2].Strike = 98
    /\ input.data[3].Strike = 102
    /\ ret.closestIndex = 0

\* C26: the visible window is a contiguous run of the strike-sorted data
\* that contains the strike closest to spot and visibleStrikes strikes on
\* each side of it, fewer on a side only where the data ends; it is empty
\* only when the data is empty
C26_VisibleWindow ==
    call = "GEXChart" =>
        LET sorted == ret.sortedData
            view == ret.viewData
            RANGE == input.visibleStrikes
        IN  /\ Len(view) <= 2 * RANGE + 1
            /\ view = <<>> <=> input.data = <<>>
            /\ view # <<>> =>
                  \E start \in 0..(Len(sorted) - Len(view)) :
                      LET below == ret.closestIndex - start
                          above == start + Len(view) - 1 - ret.closestIndex
                      IN  /\ view = SubSeq(sorted, start + 1,
                                           start + Len(view))
                          /\ below \in 0..RANGE
                          /\ above \in 0..RANGE
                          /\ below < RANGE => start = 0
                          /\ above < RANGE
                                => start + Len(view) = Len(sorted)

\* three strikes, the closest one lowest: one strike above it is shown
C26_Witness ==
    /\ call = "GEXChart"
    /\ input.visibleStrikes = 1
    /\ Len(ret.sortedData) = 3
    /\ ret.sortedData[1].Strike < ret.sortedData[2].Strike
    /\ ret.sortedData[2].Strike < ret.sortedData[3].Strike
    /\ ret.closestIndex = 0
    /\ Len(ret.viewData) = 2

\* ================================================================= scanner
\* components/scanner/scanner-view.tsx
MaxInputLen == 3    \* characters the user types into the symbols field

\* useState("SPX, QQQ, IWM, SPY, TSLA, NVDA, AMD")
DefaultSymbolsInput ==
    <<"S", "P", "X", ",", " ", "Q", "Q", "Q", ",", " ", "I", "W", "M",
      ",", " ", "S", "P", "Y", ",", " ", "T", "S", "L", "A", ",", " ",
      "N", "V", "D", "A", ",", " ", "A", "M", "D">>

InputChars == {"a", " ", ","}

\* one edit of the symbols field: select all and delete, or type one more
\* character at the end
Edits(text) ==
    {<<>>} \cup
        IF Len(text) < MaxInputLen
        THEN {Append(text, c) : c \in InputChars} ELSE {}

\* positions of the Max DTE slider (0..60) and the Strike Range slider
\* (5..50 in steps of 5)
MaxDteValues == {0, 30}
StrikeRangeValues == {5, 20, 50}

Whitespace == {" "}

\* String.prototype.split(","): the pieces between the commas
RECURSIVE split(_)
split(str) ==
    IF \A i \in 1..Len(str) : str[i] # "," THEN <<str>>
    ELSE LET c == CHOOSE i \in 1..Len(str) :
                     str[i] = "," /\ \A j \in 1..(i - 1) : str[j] # ","
         IN  <<SubSeq(str, 1, c - 1)>> \o split(SubSeq(str, c + 1, Len(str)))

\* String.prototype.trim
RECURSIVE trim(_)
trim(str) ==
    IF str = <<>> THEN str
    ELSE IF str[1] \in Whitespace THEN trim(Tail(str))
    ELSE IF str[Len(str)] \in Whitespace
         THEN trim(SubSeq(str, 1, Len(str) - 1))
    ELSE str

\* Array.prototype.filter((s) => s.length > 0)
RECURSIVE nonEmpty(_)
nonEmpty(strs) ==
    IF strs = <<>> THEN <<>>
    ELSE IF Len(Head(strs)) > 0 THEN <<Head(strs)>> \o nonEmpty(Tail(strs))
    ELSE nonEmpty(Tail(strs))

parseSymbols_NoFilter(symbolsInput) ==
    LET pieces == split(symbolsInput)
    IN  [i \in 1..Len(pieces) |-> toUpperCase(trim(pieces[i]))]

\* symbolsInput.split(",").map((s) => s.trim().toUpperCase())
\*     .filter((s) => s.length > 0)
parseSymbols(symbolsInput) ==
    LET pieces == split(symbolsInput)
    IN  nonEmpty([i \in 1..Len(pieces) |-> toUpperCase(trim(pieces[i]))])

\* the body of the POST to /api/v1/gex/scan; strike_range_pct is
\* strikeRange / 100.0, held as the fraction num / den
ScanRequest(symbols, maxDte, strikeRange) ==
    [symbols |-> symbols,
     max_dte |-> maxDte,
     strike_range_pct |-> [num |-> strikeRange, den |-> 100],
     major_threshold |-> 50]

\* the error field of a result and the error state of the page
NoError == [set |-> FALSE, message |-> <<>>]

ErrorOf(message) == [set |-> TRUE, message |-> message]

\* the per-symbol message of a symbol whose data acquisition failed
FailureOf(sym) == ErrorOf(<<"n", "o", " ">> \o sym)

\* "Failed to scan universe" (status not OK) or fetch's network error
BatchErrors ==
    {ErrorOf(<<"F", "a", "i", "l", "e", "d">>), ErrorOf(<<"f", "e", "t", "c", "h">>)}

\* which results of a response of n results carry an error: none, all,
\* or exactly one
FailurePatterns(n) == {{}, 1..n} \cup {{j} : j \in 1..n}

\* the response to a request: one result per symbol
ScanResults(request, failed) ==
    [i \in 1..Len(request.symbols) |->
        [symbol |-> request.symbols[i],
         error |-> IF i \in failed THEN FailureOf(request.symbols[i])
                   ELSE NoError]]

\* the Status cell: if (err) Error badge with the message, else Success
StatusCell(err) ==
    IF err.set /\ err.message # <<>>
    THEN [status |-> "Error", tooltip |-> err.message]
    ELSE [status |-> "Success", tooltip |-> <<>>]

\* table.getRowModel().rows, unsorted: the Symbol and Status cells
TableRows(results) ==
    [i \in 1..Len(results) |->
        [symbol |-> results[i].symbol, cell |-> StatusCell(results[i].error)]]

\* the page after a render
WithRows(sc) == [sc EXCEPT !.rows = TableRows(sc.data)]

ScannerMount ==
    [symbolsInput |-> DefaultSymbolsInput, maxDte |-> 30, strikeRange |-> 20,
     data |-> <<>>, loading |-> FALSE, error |-> NoError,
     pending |-> <<>>, rows |-> <<>>]

Scanned_FailBatch(sc, json) ==
    [sc EXCEPT !.data = json, !.loading = FALSE, !.pending = <<>>,
               !.error = IF \E i \in 1..Len(json) : json[i].error.set
                         THEN ErrorOf(<<"F", "a", "i", "l", "e", "d">>)
                         ELSE sc.error]

\* setData(json); finally setLoading(false)
Scanned(sc, json) ==
    [sc EXCEPT !.data = json, !.loading = FALSE, !.pending = <<>>]

InitScanner ==
    /\ Mount /\ symbol = "SPY" /\ ~auto_update
    /\ input = Nothing
    /\ call = ""
    /\ ret = Nothing
    /\ scanner = ScannerMount

ScannerStep(sc) ==
    /\ scanner' = WithRows(sc)
    /\ UNCHANGED <<input, call, ret>>
    /\ UNCHANGED dashVars

SetSymbolsInput(text) ==
    /\ text # scanner.symbolsInput
    /\ ScannerStep([scanner EXCEPT !.symbolsInput = text])

SetMaxDte(v) ==
    /\ v # scanner.maxDte
    /\ ScannerStep([scanner EXCEPT !.maxDte = v])

SetStrikeRange(v) ==
    /\ v # scanner.strikeRange
    /\ ScannerStep([scanner EXCEPT !.strikeRange = v])

\* handleScan up to the await of fetch(); the button is disabled while
\* loading
HandleScan ==
    /\ ~scanner.loading
    /\ LET symbols == parseSymbols(scanner.symbolsInput)
           cleared == [scanner EXCEPT !.error = NoError, !.data = <<>>]
       IN  IF Len(symbols) = 0
           THEN ScannerStep([cleared EXCEPT !.loading = FALSE])
           ELSE ScannerStep(
                  [cleared EXCEPT
                     !.loading = TRUE,
                     !.pending = <<ScanRequest(symbols, scanner.maxDte,
                                               scanner.strikeRange)>>])

\* the response arrives with status OK
ScanOk(failed) ==
    /\ scanner.pending # <<>>
    /\ ScannerStep(Scanned(scanner, ScanResults(scanner.pending[1], failed)))

\* status not OK, or the fetch rejects: setError(err.message)
ScanFailed(err) ==
    /\ scanner.pending # <<>>
    /\ ScannerStep([scanner EXCEPT !.error = err, !.loading = FALSE,
                                   !.pending = <<>>])

TypeSymbols ==
    \E text \in Edits(scanner.symbolsInput) : SetSymbolsInput(text)

SlideMaxDte == \E v \in MaxDteValues : SetMaxDte(v)

SlideStrikeRange == \E v \in StrikeRangeValues : SetStrikeRange(v)

ScanResponse ==
    \E failed \in FailurePatterns(
           IF scanner.pending = <<>> THEN 0
           ELSE Len(scanner.pending[1].symbols)) : ScanOk(failed)

ScanError == \E err \in BatchErrors : ScanFailed(err)

NextScanner ==
    \/ TypeSymbols
    \/ SlideMaxDte
    \/ SlideStrikeRange
    \/ HandleScan
    \/ ScanResponse
    \/ ScanError

SpecScanner == InitScanner /\ [][NextScanner]_vars

RequestOK(request) ==
    /\ request.max_dte >= 0
    /\ 0 < request.strike_range_pct.num
    /\ request.strike_range_pct.num <= request.strike_range_pct.den
    /\ request.major_threshold > 0
    /\ Len(request.symbols) > 0
    /\ \A i \in 1..Len(request.symbols) :
          LET sym == request.symbols[i]
          IN  /\ Len(sym) > 0
              /\ sym[1] # " " /\ sym[Len(sym)] # " "
              /\ \A j \in 1..Len(sym) :
                    \A k \in 1..Len(LowerCase) : sym[j] # LowerCase[k]

\* the text holds nothing but commas and blanks
NoSymbol(text) == \A i \in 1..Len(text) : text[i] \in {",", " "}

\* C18: every scan request has max_dte >= 0, 0 < strike_range_pct <= 1,
\* major_threshold > 0 and a non-empty list of trimmed, upper-cased,
\* non-empty symbols; a scan of an input without a symbol sends no request
\* and leaves loading false
C18_ScanRequests ==
    [][/\ \A i \in 1..Len(scanner'.pending) : RequestOK(scanner'.pending[i])
       /\ (HandleScan /\ NoSymbol(scanner.symbolsInput))
             => scanner'.pending = <<>> /\ ~scanner'.loading
       /\ (HandleScan /\ ~NoSymbol(scanner.symbolsInput))
             => scanner'.pending # <<>> /\ scanner'.loading]_vars

C18_Witness ==
    /\ scanner.symbolsInput = <<" ", "a", ",">>
    /\ scanner.loading
    /\ Len(scanner.pending) = 1
    /\ scanner.pending[1].symbols = << <<"A">> >>
    /\ scanner.pending[1].max_dte = 0
    /\ scanner.pending[1].strike_range_pct.num = 50

\* ======================================================== profile analysis
\* the backend's ProfileAnalyzer (spec.md 4.2): its code is outside the
\* sources at hand, the dashboard only displays what it returns
MaxStrikes == 3     \* rows of the strike sequence

GexValues == -3..3

\* the i-th strike of the chain, ascending and distinct
StrikeAt(i) == 96 + 2 * i

\* sorted StrikeRow sequences: strike and netGexM
ProfileRows ==
    UNION {[1..n -> GexValues] : n \in 0..MaxStrikes}

RowsOf(gex) == [i \in 1..Len(gex) |-> [strike |-> StrikeAt(i), netGexM |-> gex[i]]]

ProfileInputs ==
    [rows : {RowsOf(g) : g \in ProfileRows}, spotPrice : {97, 100, 103}]

\* cumulativeByStrike: the running sum of netGexM up to the i-th row
RECURSIVE cumulativeGexM(_, _)
cumulativeGexM(rows, i) ==
    IF i = 0 THEN 0 ELSE cumulativeGexM(rows, i - 1) + rows[i].netGexM

\* the cumulative values at rows i and i + 1 are of opposite sign
SignChange(rows, i) ==
    cumulativeGexM(rows, i) * cumulativeGexM(rows, i + 1) < 0

NoCrossing == [null |-> TRUE, num |-> 0, den |-> 1]

\* interpolate weighting with the cumulative value of the upper strike
interpolate_UpperWeight(rows, i) ==
    LET cum_i == cumulativeGexM(rows, i)
        cum_j == cumulativeGexM(rows, i + 1)
        s_i == rows[i].strike
        s_j == rows[i + 1].strike
    IN  [null |-> FALSE,
         num |-> s_i * (cum_j - cum_i) + (s_j - s_i) * cum_j,
         den |-> cum_j - cum_i]

\* s_i + (s_j - s_i) * (-cum_i) / (cum_j - cum_i), as the fraction num / den
interpolate(rows, i) ==
    LET cum_i == cumulativeGexM(rows, i)
        cum_j == cumulativeGexM(rows, i + 1)
        s_i == rows[i].strike
        s_j == rows[i + 1].strike
    IN  [null |-> FALSE,
         num |-> s_i * (cum_j - cum_i) + (s_j - s_i) * (-cum_i),
         den |-> cum_j - cum_i]

\* the walk along the cumulative curve from row i on
RECURSIVE zeroGammaWalk(_, _)
zeroGammaWalk(rows, i) ==
    IF i >= Len(rows) THEN NoCrossing
    ELSE IF SignChange(rows, i) THEN interpolate(rows, i)
    ELSE zeroGammaWalk(rows, i + 1)

zeroGammaLevel(rows) == zeroGammaWalk(rows, 1)

\* maxScan keeping the later of two rows with the same netGexM
RECURSIVE maxScan_LastWins(_, _, _)
maxScan_LastWins(rows, i, best) ==
    IF i > Len(rows) THEN best
    ELSE IF rows[i].netGexM >= rows[best].netGexM
    THEN maxScan_LastWins(rows, i + 1, i)
    ELSE maxScan_LastWins(rows, i + 1, best)

\* the index of the maximum-netGexM row from row i on, best so far at best;
\* of equal rows the first, the lowest strike, is kept
RECURSIVE maxScan(_, _, _)
maxScan(rows, i, best) ==
    IF i > Len(rows) THEN best
    ELSE IF rows[i].netGexM > rows[best].netGexM
    THEN maxScan(rows, i + 1, i)
    ELSE maxScan(rows, i + 1, best)

\* the call wall: the maximum among the rows at or above spot when that is
\* positive, otherwise the global maximum; null without rows
callWallOf(rows, spotPrice) ==
    LET atOrAbove == SelectSeq(rows, LAMBDA r : r.strike >= spotPrice)
        preferred == maxScan(atOrAbove, 1, 1)
    IN  IF rows = <<>> THEN NoLevel
        ELSE IF atOrAbove # <<>> /\ atOrAbove[preferred].netGexM > 0
        THEN atOrAbove[preferred].strike
        ELSE rows[maxScan(rows, 1, 1)].strike

InitProfile ==
    /\ Mount /\ symbol = "SPY" /\ ~auto_update
    /\ input \in ProfileInputs
    /\ call = ""
    /\ ret = Nothing
    /\ scanner = Nothing

\* one analysis of the input; it may be run again
AnalyzeZeroGamma == Apply("zeroGammaLevel", zeroGammaLevel(input.rows))

AnalyzeCallWall ==
    Apply("callWall", callWallOf(input.rows, input.spotPrice))

NextProfile ==
    \/ AnalyzeZeroGamma
    \/ AnalyzeCallWall

SpecProfile == InitProfile /\ [][NextProfile]_vars

\* the netGexM sequence of the rows
GexOf(rows) == [i \in 1..Len(rows) |-> rows[i].netGexM]

\* C22: the zero-gamma level is null when no two adjacent cumulative values
\* are of opposite sign; otherwise it belongs to such an adjacent strike
\* pair, lies strictly between the two strikes, and the line through the two
\* cumulative values is zero there
C22_ZeroGammaInterpolation ==
    call = "zeroGammaLevel" =>
        LET rows == input.rows
            cum(i) == cumulativeGexM(rows, i)
            changes == {i \in 1..(Len(rows) - 1) : cum(i) * cum(i + 1) < 0}
        IN  /\ changes = {} => ret.null
            /\ changes # {} =>
                  /\ ~ret.null
                  /\ ret.den # 0
                  /\ \E i \in changes :
                        LET lo == rows[i].strike * ret.den
                            hi == rows[i + 1].strike * ret.den
                        IN  /\ IF ret.den > 0
                               THEN lo < ret.num /\ ret.num < hi
                               ELSE hi < ret.num /\ ret.num < lo
                            /\ cum(i) * ret.den
                                     * (rows[i + 1].strike - rows[i].strike)
                                  + (cum(i + 1) - cum(i)) * (ret.num - lo)
                               = 0

\* cumulative values 1, -2, -4: the crossing is a third of the way from the
\* first strike to the second
C22_Witness ==
    /\ call = "zeroGammaLevel"
    /\ GexOf(input.rows) = <<1, -3, -2>>
    /\ ~ret.null
    /\ 3 * ret.num = (2 * StrikeAt(1) + StrikeAt(2)) * ret.den

\* C23: the call wall is null without rows; otherwise it is the strike of a
\* maximum-netGexM row among the rows at or above spot when one of those is
\* positive, and of a global maximum-netGexM row when none is, in both cases
\* the lowest strike among equal rows; running the selection again on the
\* same input returns the same wall
C23_CallWallSelection ==
    [][call' = "callWall" =>
         LET rows == input.rows
             all == 1..Len(rows)
             above == {i \in all : rows[i].strike >= input.spotPrice}
             pool == IF \E i \in above : rows[i].netGexM > 0
                     THEN above ELSE all
         IN  /\ rows = <<>> => ret' = NoLevel
             /\ rows # <<>> =>
                   \E w \in pool :
                      /\ ret' = rows[w].strike
                      /\ \A j \in pool :
                            /\ rows[j].netGexM <= rows[w].netGexM
                            /\ rows[j].netGexM = rows[w].netGexM
                                  => rows[w].strike <= rows[j].strike
             /\ call = "callWall" => ret' = ret]_vars

\* spot 100: the two rows above spot tie at 2, the lower of them is the
\* wall although a row below spot has 2 as well
C23_Witness ==
    /\ call = "callWall"
    /\ input.spotPrice = 100
    /\ GexOf(input.rows) = <<2, 2, 2>>
    /\ ret = StrikeAt(2)

====
